---- MODULE Spec2Model ----
(***************************************************************************)
(* Model of worktime_tracker/worktime_tracker.py: the state-event log      *)
(* file, the interval aggregation (get_logs / get_cum_times_per_state)     *)
(* and the history rewrite (rewrite_history).                              *)
(*                                                                         *)
(* Time is counted in integer ticks.  One microsecond is TicksPerMicro     *)
(* ticks, so that the '.6f' formatting of rewrite_history is a rounding    *)
(* and not the identity (a float near 1.7e9 has a spacing of about a       *)
(* quarter of a microsecond).  A log line written with str(float) parses   *)
(* back to the same float, so such a line is stored as its timestamp.      *)
(*                                                                         *)
(* last and nrw are history variables: the record of the operation that    *)
(* ran last and the number of rewrites so far.  They are read by the       *)
(* properties only; no operation of the program depends on them.           *)
(*                                                                         *)
(* Spec is the log store with its appends and rewrites.  SpecTracker is    *)
(* the facade (WorktimeTracker.check_state), SpecRace is maybe_write_log   *)
(* run by two writers at once, SpecCalendar is the weekday arithmetic.     *)
(***************************************************************************)
EXTENDS Integers, Sequences, FiniteSets, TLC

\* ---------------------------------------------------------------- bounds
MaxTime == 3          \* the clock stops advancing at this tick
MaxLogLen == 3        \* an entry is appended to a log shorter than this
MaxRewriteLen == 2    \* a log of at most this length is rewritten
TicksPerMicro == 5    \* resolution of a timestamp below one microsecond
TicksPerSecond == 3   \* ticks per second of int(time.time()), scaled down
MaxRewrites == 2      \* rewrite_history is called at most this many times

\* ---------------------------------------------------------------- state
VARIABLES
    log,        \* content of LOGS_PATH: sequence of [ts, st] lines
    now,        \* time.time()
    backups,    \* backup files: integer second of the name -> content
    nrw,        \* number of rewrite_history calls made so far
    last,       \* the last operation, its arguments, the log before it, its outcome
    lastCheck,  \* content of LAST_CHECK_PATH, -1 while the file does not exist
    readOnly,   \* WorktimeTracker.read_only
    ret,        \* what the last check_state call returned or raised
    proc,       \* the position of each writer inside maybe_write_log
    cal         \* a timestamp and the weekday computed for it

vars == <<log, now, backups, last, nrw, lastCheck, readOnly, ret, proc, cal>>

facade == <<lastCheck, readOnly, ret>>

states == {"work", "email", "leisure", "idle"}

Time == 0..MaxTime

Line(t, s) == [ts |-> t, st |-> s]

Min(a, b) == IF a < b THEN a ELSE b

Max(a, b) == IF a > b THEN a ELSE b

\* reversed(lines): the lines of the file, newest first
ReverseReadLine(file) == [i \in 1..Len(file) |-> file[Len(file) + 1 - i]]

Reverse(s) == [i \in 1..Len(s) |-> s[Len(s) + 1 - i]]

\* f'{x:.6f}': x rounded to the nearest microsecond, ties to even
Fmt6(t) ==
    LET q == t \div TicksPerMicro
        r == t % TicksPerMicro
    IN  IF 2 * r < TicksPerMicro THEN q * TicksPerMicro
        ELSE IF 2 * r > TicksPerMicro THEN (q + 1) * TicksPerMicro
        ELSE IF q % 2 = 0 THEN q * TicksPerMicro
        ELSE (q + 1) * TicksPerMicro

\* int(time.time())
IntSeconds(t) == t \div TicksPerSecond

\* ---------------------------------------------------------------- reads
\* read_last_log: the last line, or None on an empty file
ReadLastLog(file) ==
    IF Len(file) = 0 THEN [none |-> TRUE, ts |-> 0, st |-> "none"]
    ELSE [none |-> FALSE, ts |-> file[Len(file)].ts, st |-> file[Len(file)].st]

\* WorktimeTracker.current_state: read_last_log()[1]; None[1] is a TypeError
CurrentState(file) ==
    IF ReadLastLog(file).none THEN [ok |-> FALSE, val |-> "TypeError"]
    ELSE [ok |-> TRUE, val |-> ReadLastLog(file).st]

\* the loop of get_logs over the reversed file, from line i of rev on
RECURSIVE ScanLogs(_, _, _, _, _)
ScanLogs(rev, i, logs, start, end) ==
    IF i > Len(rev) THEN logs
    ELSE IF rev[i].ts > end THEN ScanLogs(rev, i + 1, logs, start, end)
    ELSE IF rev[i].ts < start THEN Append(logs, Line(start, rev[i].st))
    ELSE ScanLogs(rev, i + 1, Append(logs, rev[i]), start, end)

GetLogs(file, clock, start, end) ==
    LET e == Min(end, clock)
    IN  Reverse(ScanLogs(ReverseReadLine(file), 1, <<Line(e, "idle")>>, start, e))

\* the loop of get_cum_times_per_state from entry i of logs on
RECURSIVE CumLoop(_, _, _, _, _, _)
CumLoop(logs, i, curStart, curState, cum, start) ==
    IF i > Len(logs) THEN cum
    ELSE IF logs[i].st = curState
         THEN CumLoop(logs, i + 1, curStart, curState, cum, start)
    ELSE CumLoop(logs, i + 1, logs[i].ts, logs[i].st,
                 [cum EXCEPT ![curState] = @ + (logs[i].ts - Max(curStart, start))],
                 start)

\* get_cum_times_per_state, for start < end; a defaultdict(float) reads 0
\* for a state that was never added to
GetCumTimesPerState(file, clock, start, end) ==
    LET logs == GetLogs(file, clock, start, end)
    IN  CumLoop(logs, 2, logs[1].ts, logs[1].st, [s \in states |-> 0], start)

\* ---------------------------------------------------------------- append
\* mutant: the timestamp is written with six decimals, as rewrite_history does
AppendedFmt6(file, timestamp, state) ==
    IF ReadLastLog(file).st = state THEN file
    ELSE Append(file, Line(Fmt6(timestamp), state))

\* mutant: the line is written without looking at the last state
AppendedAlways(file, timestamp, state) == Append(file, Line(timestamp, state))

\* lines 22-25 of maybe_write_log, once read_last_log returned an entry
Appended(file, timestamp, state) ==
    IF ReadLastLog(file).st = state THEN file
    ELSE Append(file, Line(timestamp, state))

\* ---------------------------------------------------------------- rewrite
LogsBefore(logs, start) == SelectSeq(logs, LAMBDA l : l.ts < start)

LogsAfter(logs, end) == SelectSeq(logs, LAMBDA l : l.ts > end)

LogsInside(logs, start, end) == SelectSeq(logs, LAMBDA l : start <= l.ts /\ l.ts <= end)

\* lines 70-76: the boundary entry put in front of logs_after
PushBack(inside, after, end) ==
    IF Len(inside) > 0
    THEN <<Line(Fmt6(end), inside[Len(inside)].st)>> \o after
    ELSE <<Line(Fmt6(end), after[1].st)>> \o after

\* lines 78-85, for a non-empty logs_before
NewLogs(before, after, start, newState) ==
    LET merge == before[Len(before)].st = newState
        start2 == IF merge THEN before[Len(before)].ts ELSE start
        before2 == IF merge THEN SubSeq(before, 1, Len(before) - 1) ELSE before
        after2 == IF after[1].st = newState THEN Tail(after) ELSE after
    IN  before2 \o <<Line(Fmt6(start2), newState)>> \o after2

\* mutant: the file is opened for writing before the assertion is checked
RewriteResultTruncates(file, clock, start, end, newState) ==
    LET logs == GetLogs(file, clock, 0, clock)
        before == LogsBefore(logs, start)
        inside == LogsInside(logs, start, end)
        after == LogsAfter(logs, end)
    IN  IF ~(end < logs[Len(logs)].ts)
        THEN [ok |-> FALSE, err |-> "AssertionError", file |-> <<>>]
        ELSE IF Len(before) = 0
        THEN [ok |-> FALSE, err |-> "IndexError", file |-> file]
        ELSE [ok |-> TRUE, err |-> "none",
              file |-> NewLogs(before, PushBack(inside, after, end), start, newState)]

\* the outcome of rewrite_history on a file at a clock value
RewriteResult(file, clock, start, end, newState) ==
    LET logs == GetLogs(file, clock, 0, clock)
        before == LogsBefore(logs, start)
        inside == LogsInside(logs, start, end)
        after == LogsAfter(logs, end)
    IN  IF ~(end < logs[Len(logs)].ts)
        THEN [ok |-> FALSE, err |-> "AssertionError", file |-> file]
        ELSE IF Len(before) = 0
        THEN [ok |-> FALSE, err |-> "IndexError", file |-> file]
        ELSE [ok |-> TRUE, err |-> "none",
              file |-> NewLogs(before, PushBack(inside, after, end), start, newState)]

\* mutant: the backup replaces the backups made earlier
BackupToOnly(bck, clock, file) == [k \in {IntSeconds(clock)} |-> file]

\* shutil.copy(LOGS_PATH, f'{LOGS_PATH}.bck{int(time.time())}')
BackupTo(bck, clock, file) ==
    [k \in DOMAIN bck \cup {IntSeconds(clock)} |->
        IF k = IntSeconds(clock) THEN file ELSE bck[k]]

\* ---------------------------------------------------------------- actions
Writers == {"w1", "w2"}

\* no writer is inside maybe_write_log
NoProc == [w \in Writers |-> [pc |-> "idle", ts |-> 0, st |-> "none", lastState |-> "none",
                              used |-> FALSE]]

\* no weekday has been asked for
NoCal == [ts |-> 0, wd |-> -1]

NoOp == [op |-> "tick", start |-> 0, end |-> 0, st |-> "none", pre |-> <<>>,
         ok |-> TRUE, err |-> "none"]

\* the log file is empty, or holds one entry written at time 0
Init ==
    /\ now = 0
    /\ log \in {<<>>} \cup {<<Line(0, s)>> : s \in {"work", "idle"}}
    /\ backups = <<>>
    /\ last = NoOp
    /\ nrw = 0
    /\ lastCheck = -1 /\ readOnly = FALSE /\ ret = "none"
    /\ proc = NoProc
    /\ cal = NoCal

\* the clock advances
Tick ==
    /\ now < MaxTime
    /\ now' = now + 1
    /\ last' = NoOp
    /\ UNCHANGED <<log, backups, nrw, facade, proc, cal>>

\* maybe_write_log(timestamp, state) called with timestamp = time.time()
MaybeWriteLog(state) ==
    /\ last.op # "rewrite"
    /\ Len(log) < MaxLogLen
    /\ LET r == ReadLastLog(log)
       IN  IF r.none
           THEN \* '_, last_state = None' raises TypeError
                /\ log' = log
                /\ last' = [op |-> "append", start |-> now, end |-> now, st |-> state,
                            pre |-> log, ok |-> FALSE, err |-> "TypeError"]
           ELSE /\ log' = Appended(log, now, state)
                /\ last' = [op |-> "append", start |-> now, end |-> now, st |-> state,
                            pre |-> log, ok |-> TRUE, err |-> "none"]
    /\ UNCHANGED <<now, backups, nrw, facade, proc, cal>>

\* rewrite_history(start_timestamp, end_timestamp, new_state)
RewriteHistory(start, end, newState) ==
    /\ last.op # "rewrite"
    /\ nrw < MaxRewrites
    /\ Len(log) <= MaxRewriteLen
    /\ LET r == RewriteResult(log, now, start, end, newState)
       IN  /\ backups' = BackupTo(backups, now, log)
           /\ log' = r.file
           /\ last' = [op |-> "rewrite", start |-> start, end |-> end, st |-> newState,
                       pre |-> log, ok |-> r.ok, err |-> r.err]
    /\ nrw' = nrw + 1
    /\ UNCHANGED <<now, facade, proc, cal>>

\* the caller has taken the outcome of rewrite_history; the record of the call
\* is dropped, the files and the clock are as the call left them
Return ==
    /\ last.op = "rewrite"
    /\ last' = NoOp
    /\ UNCHANGED <<log, now, backups, nrw, facade, proc, cal>>

Next ==
    \/ Tick
    \/ Return
    \/ \E s \in states : MaybeWriteLog(s)
    \/ \E start \in Time : \E end \in start..(now + 1) : \E s \in states :
          RewriteHistory(start, end, s)

Spec == Init /\ [][Next]_vars

\* ---------------------------------------------------------------- facade
\* WorktimeTracker.work_states
work_states == {"work", "email"}

\* mutant: last_state is read after the log was written
StateChangedStale(state, lastState) == FALSE

\* line 203: return state != last_state
StateChanged(state, lastState) == state # lastState

\* mutant: the sum leaves the email state out
WorkTimeWorkOnly(cum) == cum["work"]

\* line 107: sum(cum_times[state] for state in WorktimeTracker.work_states)
WorkTime(cum) == cum["work"] + cum["email"]

\* get_work_time(start_timestamp, end_timestamp)
GetWorkTime(file, clock, start, end) ==
    WorkTime(GetCumTimesPerState(file, clock, start, end))

\* maybe_append_and_write_log: 'if self.read_only: False' evaluates False and
\* goes on, so the log is written whatever read_only is
MaybeAppendAndWriteLog(ro, file, timestamp, state) ==
    IF ro THEN Appended(file, timestamp, state)
    ELSE Appended(file, timestamp, state)

\* a tracker is constructed, read-only or not, over a log that is empty or
\* holds one entry written at time 0
InitTracker ==
    /\ now = 0
    /\ log \in {<<>>} \cup {<<Line(0, s)>> : s \in {"work", "idle"}}
    /\ backups = <<>>
    /\ last = NoOp
    /\ nrw = 0
    /\ lastCheck = -1
    /\ readOnly \in BOOLEAN
    /\ ret = "none"
    /\ proc = NoProc
    /\ cal = NoCal

\* WorktimeTracker.check_state(), get_state() returning state
CheckState(state) ==
    /\ Len(log) < MaxLogLen
    /\ LET r == ReadLastLog(log)
       IN  IF r.none
           THEN \* line 198: '_, last_state = None' raises TypeError
                /\ UNCHANGED <<log, lastCheck>>
                /\ ret' = "TypeError"
                /\ last' = [op |-> "check", start |-> now, end |-> now, st |-> state,
                            pre |-> log, ok |-> FALSE, err |-> "TypeError"]
           ELSE /\ lastCheck' = now
                /\ log' = MaybeAppendAndWriteLog(readOnly, log, now, state)
                /\ ret' = IF StateChanged(state, r.st) THEN "True" ELSE "False"
                /\ last' = [op |-> "check", start |-> now, end |-> now, st |-> state,
                            pre |-> log, ok |-> TRUE, err |-> "none"]
    /\ UNCHANGED <<now, backups, nrw, readOnly, proc, cal>>

NextTracker ==
    \/ Tick
    \/ \E s \in states : CheckState(s)

SpecTracker == InitTracker /\ [][NextTracker]_vars

\* ---------------------------------------------------------------- two writers
\* mutant: the line is written whatever last state was read
WriteAfterReadAlways(file, lastState, timestamp, state) ==
    Append(file, Line(timestamp, state))

\* lines 22-25 of maybe_write_log, with the last state read at line 21
WriteAfterRead(file, lastState, timestamp, state) ==
    IF lastState = state THEN file
    ELSE Append(file, Line(timestamp, state))

InitRace ==
    /\ now = 0
    /\ log \in {<<>>} \cup {<<Line(0, s)>> : s \in {"work", "idle"}}
    /\ backups = <<>>
    /\ last = NoOp
    /\ nrw = 0
    /\ lastCheck = -1 /\ readOnly = FALSE /\ ret = "none"
    /\ proc = NoProc
    /\ cal = NoCal

\* writer w calls maybe_write_log(time.time(), state) and reads the last entry
\* (line 21); on an empty log the unpacking raises and the call ends
ReadStep(w, state) ==
    /\ proc[w].pc = "idle"
    /\ Len(log) < MaxLogLen
    /\ LET r == ReadLastLog(log)
       IN  IF r.none
           THEN proc' = [proc EXCEPT ![w] = [pc |-> "idle", ts |-> now, st |-> state,
                                             lastState |-> "none", used |-> TRUE]]
           ELSE proc' = [proc EXCEPT ![w] = [pc |-> "read", ts |-> now, st |-> state,
                                             lastState |-> r.st, used |-> TRUE]]
    /\ UNCHANGED <<log, now, backups, nrw, last, facade, cal>>

\* writer w compares and writes (lines 22-25)
WriteStep(w) ==
    /\ proc[w].pc = "read"
    /\ log' = WriteAfterRead(log, proc[w].lastState, proc[w].ts, proc[w].st)
    /\ proc' = [proc EXCEPT ![w].pc = "idle"]
    /\ UNCHANGED <<now, backups, nrw, last, facade, cal>>

NextRace ==
    \/ Tick
    \/ \E w \in Writers : \E s \in states : ReadStep(w, s)
    \/ \E w \in Writers : WriteStep(w)

SpecRace == InitRace /\ [][NextRace]_vars

\* ---------------------------------------------------------------- calendar
\* Timestamps of the calendar are whole minutes since the epoch, in a time
\* zone without offset: a datetime is a day number and a minute of that day.
MaxDay == 8             \* the calendar timestamps lie in the first MaxDay days
day_start_hour == 7
EpochWeekday == 3       \* 1970-01-01 is a Thursday; Monday is 0
MinutesPerDay == 24 * 60

CalTimes == 0..(MaxDay * MinutesPerDay - 1)

\* datetime.fromtimestamp(timestamp)
FromTimestamp(timestamp) ==
    [day |-> timestamp \div MinutesPerDay, minute |-> timestamp % MinutesPerDay]

\* datetime + timedelta(hours=h)
PlusHours(dt, h) ==
    LET total == dt.day * MinutesPerDay + dt.minute + h * 60
    IN  [day |-> total \div MinutesPerDay, minute |-> total % MinutesPerDay]

\* datetime.weekday()
Weekday(dt) == (dt.day + EpochWeekday) % 7

\* mutant: the day start is added instead of subtracted
GetTimestampWeekdayPlus(timestamp) ==
    Weekday(PlusHours(FromTimestamp(timestamp), day_start_hour))

\* WorktimeTracker.get_timestamp_weekday(timestamp)
GetTimestampWeekday(timestamp) ==
    Weekday(PlusHours(FromTimestamp(timestamp), -day_start_hour))

InitCalendar ==
    /\ now = 0
    /\ log = <<>>
    /\ backups = <<>>
    /\ last = NoOp
    /\ nrw = 0
    /\ lastCheck = -1 /\ readOnly = FALSE /\ ret = "none"
    /\ proc = NoProc
    /\ cal \in {[ts |-> t, wd |-> -1] : t \in CalTimes}

\* get_timestamp_weekday is called on the timestamp
AskWeekday ==
    /\ cal.wd = -1
    /\ cal' = [cal EXCEPT !.wd = GetTimestampWeekday(cal.ts)]
    /\ UNCHANGED <<log, now, backups, nrw, last, facade, proc>>

NextCalendar == AskWeekday

SpecCalendar == InitCalendar /\ [][NextCalendar]_vars

\* ---------------------------------------------------------------- properties
NoAdjacentDuplicates(file) ==
    \A i \in 1..(Len(file) - 1) : file[i].st # file[i + 1].st

Ordered(file) ==
    \A i \in 1..(Len(file) - 1) : file[i].ts <= file[i + 1].ts

SumStates(cum) == cum["work"] + cum["email"] + cum["leisure"] + cum["idle"]

\* the state in effect at time t: that of the last stored entry with ts <= t
StateAt(file, t) ==
    LET idx == {i \in 1..Len(file) : file[i].ts <= t}
    IN  IF idx = {} THEN "none"
        ELSE file[CHOOSE i \in idx : \A j \in idx : j <= i].st

Rewrote == last.op = "rewrite" /\ last.ok

\* C1: no two consecutive stored log entries share the same state, after any
\* sequence of appends and rewrites from a log that satisfies I1.
C1_NoAdjacentDuplicates == NoAdjacentDuplicates(log)

\* C2: coverage law: the per-state totals of get_cum_times_per_state(start, end)
\* sum to end - start.  Stated on the intervals the recorded history covers
\* (an entry is stored at or before start, and end is not after now), where
\* every second of [start, end] has a recorded state.
C2_CoverageLaw ==
    \A start \in Time : \A end \in Time :
        (start < end /\ end <= now /\ Len(log) > 0 /\ log[1].ts <= start)
        => SumStates(GetCumTimesPerState(log, now, start, end)) = end - start

\* C3: after a successful rewrite_history(start, end, new_state), aggregating
\* [start, end] attributes end - start to new_state and zero to every other state.
C3_RewrittenSpanIsNewState ==
    (Rewrote /\ last.start < last.end)
    => GetCumTimesPerState(log, now, last.start, last.end)
         = [s \in states |-> IF s = last.st THEN last.end - last.start ELSE 0]

\* C4: a successful rewrite_history(start, end, new_state) leaves the state in
\* effect unchanged at every time before start and at every time after end and
\* before the time of the rewrite.
C4_OutsideWindowUnchanged ==
    Rewrote
    => \A t \in Time :
          (t < last.start \/ (last.end < t /\ t < now))
          => StateAt(log, t) = StateAt(last.pre, t)

\* C5: rewrite_history with end not strictly before now fails with an error and
\* leaves the stored log identical to its content before the call.
C5_FutureRewriteRejected ==
    (last.op = "rewrite" /\ ~(last.end < now))
    => (~last.ok /\ last.err = "AssertionError" /\ log = last.pre)

C5_Witness ==
    /\ last.op = "rewrite"
    /\ last.end >= now
    /\ last.start < last.end
    /\ Len(last.pre) = 2
    /\ ~last.ok

\* C6: the stored log is ordered by non-decreasing timestamp in every reachable
\* state (appends with a non-decreasing clock, rewrites with start <= end < now).
C6_OrderedByTimestamp == Ordered(log)

\* C7 (as stated): after append(T, S) returns, current_state returns S and
\* read_last_log returns exactly (T, S), for any prior log content.
C7_RoundTripAlways ==
    (last.op = "append" /\ last.ok)
    => /\ CurrentState(log) = [ok |-> TRUE, val |-> last.st]
       /\ ReadLastLog(log) = [none |-> FALSE, ts |-> last.start, st |-> last.st]

\* C7 (amended): after append(T, S) returns, current_state returns S;
\* read_last_log returns (T, S) when the last stored state differed from S, and
\* the unchanged last entry of the prior log, whose state is S, otherwise.
C7_RoundTrip ==
    (last.op = "append" /\ last.ok)
    => /\ CurrentState(log) = [ok |-> TRUE, val |-> last.st]
       /\ IF ReadLastLog(last.pre).st # last.st
          THEN ReadLastLog(log) = [none |-> FALSE, ts |-> last.start, st |-> last.st]
          ELSE ReadLastLog(log) = ReadLastLog(last.pre)

C7_Witness ==
    /\ last.op = "append"
    /\ last.ok
    /\ Len(log) = Len(last.pre) + 1
    /\ last.start % TicksPerMicro # 0
    /\ ReadLastLog(log).ts = last.start

\* C8: an append whose state equals the last stored state writes nothing, and
\* an append of the same state as the append just before it stores no further
\* entry, so N appends of one state in a row store as many entries as one.
C8_Dedup ==
    [][ last'.op = "append"
        => /\ (ReadLastLog(log).st = last'.st => log' = log)
           /\ ((last.op = "append" /\ last.st = last'.st) => Len(log') = Len(log)) ]_vars

C8_Witness ==
    /\ last.op = "append"
    /\ last.ok
    /\ log = last.pre
    /\ Len(log) > 0
    /\ last.start > ReadLastLog(log).ts

\* C9: on an empty log current_state reports 'no history' without a fault, and
\* the first append on an empty log stores its entry.
C9_EmptyHistoryHandled ==
    /\ Len(log) = 0 => CurrentState(log).ok
    /\ (last.op = "append" /\ Len(last.pre) = 0)
       => (last.ok /\ log = <<Line(last.start, last.st)>>)

\* C10 (as stated): every rewrite_history call backs up the log as it was before
\* the call, and the content of every backup ever made stays available in some
\* backup after any later rewrite.
C10_BackupsAllKept ==
    [][ /\ nrw' = nrw + 1 => \E k \in DOMAIN backups' : backups'[k] = log
        /\ \A k \in DOMAIN backups : \E k2 \in DOMAIN backups' : backups'[k2] = backups[k]
      ]_vars

\* C10 (amended): every rewrite_history call stores a full copy of the log as
\* it was before the call under the integer second of the call, replacing a
\* backup made earlier in that second; the backups of other seconds are kept,
\* and no other operation touches a backup.
C10_BackupBeforeRewrite ==
    [][ IF nrw' = nrw + 1
        THEN /\ IntSeconds(now) \in DOMAIN backups'
             /\ backups'[IntSeconds(now)] = log
             /\ \A k \in DOMAIN backups \ {IntSeconds(now)} :
                   k \in DOMAIN backups' /\ backups'[k] = backups[k]
        ELSE backups' = backups ]_vars

C10_Witness ==
    /\ Rewrote
    /\ log # last.pre
    /\ Cardinality(DOMAIN backups) = 2
    /\ backups[IntSeconds(now)] = last.pre
    /\ \E k \in DOMAIN backups : backups[k] # last.pre

\* C12: check_state returns true exactly when the sampled state differs from
\* the last stored state, and exactly then it appends the one entry
\* (now, sampled state); when it returns false the log is unchanged.
C12_CheckStateReturn ==
    (last.op = "check" /\ last.ok)
    => /\ ret \in {"True", "False"}
       /\ ret = "True" <=> last.st # ReadLastLog(last.pre).st
       /\ ret = "True" <=> log = Append(last.pre, Line(last.start, last.st))
       /\ ret = "False" => log = last.pre

C12_Witness ==
    /\ last.op = "check"
    /\ ret = "True"
    /\ Len(last.pre) = 2
    /\ Len(log) = 3
    /\ lastCheck = now

\* C18: a tracker constructed with read_only = True never changes the stored
\* log.
C18_ReadOnlyNeverWrites == [][readOnly => log' = log]_vars

\* C11: a rewrite_history call that violates its precondition (end not before
\* now) writes nothing: the log file and the backup files are as before.
C11_RejectedRewriteWritesNothing ==
    [][ (nrw' = nrw + 1 /\ last'.err = "AssertionError")
        => (log' = log /\ backups' = backups) ]_vars

\* the last stored entry, by position, that is dated before t
LastBefore(file, t) ==
    LET idx == {i \in 1..Len(file) : file[i].ts < t}
    IN  file[CHOOSE i \in idx : \A j \in idx : j <= i]

\* C13: get_logs(start, end) returns entries in ascending timestamp order, all
\* inside [start, min(end, now)]; when a stored entry precedes start the first
\* returned entry is dated start and has the state of the last stored entry
\* before start; the last returned entry is (min(end, now), idle).  Stated for
\* the ranges with start <= end.
C13_GetLogsClipped ==
    \A start \in Time : \A end \in start..MaxTime :
        LET r == GetLogs(log, now, start, end)
            e == Min(end, now)
        IN  /\ Ordered(r)
            /\ \A i \in 1..Len(r) : start <= r[i].ts /\ r[i].ts <= e
            /\ (\E i \in 1..Len(log) : log[i].ts < start)
               => r[1] = Line(start, LastBefore(log, start).st)
            /\ r[Len(r)] = Line(e, "idle")

\* the number of ticks of [start, end) whose state in effect is a work state
WorkTicks(file, start, end) ==
    Cardinality({t \in start..(end - 1) : StateAt(file, t) \in work_states})

\* C16: on an ordered log, for start < end <= now, get_work_time(start, end) is
\* the total length of the parts of [start, end] in which the state in effect
\* is work or email.
C16_WorkTimeIsTimeInWorkStates ==
    Ordered(log)
    => \A start \in Time : \A end \in Time :
          (start < end /\ end <= now)
          => GetWorkTime(log, now, start, end) = WorkTicks(log, start, end)

C16_Witness ==
    /\ Ordered(log)
    /\ Len(log) >= 3
    /\ \E start \in Time : \E end \in Time :
          /\ start < end /\ end <= now
          /\ GetCumTimesPerState(log, now, start, end)["work"] > 0
          /\ GetCumTimesPerState(log, now, start, end)["email"] > 0
          /\ GetWorkTime(log, now, start, end) < end - start

\* C17: on an ordered log, for start < end, also with start or end later than
\* now, every per-state total of get_cum_times_per_state(start, end) is between
\* 0 and end - start.
C17_TotalsWithinSpan ==
    Ordered(log)
    => \A start \in Time : \A end \in Time : \A s \in states :
          start < end
          => /\ 0 <= GetCumTimesPerState(log, now, start, end)[s]
             /\ GetCumTimesPerState(log, now, start, end)[s] <= end - start

\* C19: after a successful rewrite_history whose end is earlier than the last
\* stored entry's timestamp, the last stored entry is the same as before: the
\* virtual closing entry of get_logs is not persisted.
C19_VirtualEntryNotStored ==
    (Rewrote /\ Len(last.pre) > 0 /\ last.end < ReadLastLog(last.pre).ts)
    => ReadLastLog(log) = ReadLastLog(last.pre)

\* C20: rewrite_history(start, end, s) completes for every start <= end < now,
\* also when no stored entry is dated before start.
C20_RewriteCompletes ==
    (last.op = "rewrite" /\ last.start <= last.end /\ last.end < now)
    => last.ok

\* C14: for a calendar date D, the weekday of the timestamp one minute before
\* day_start_hour on D is the weekday of the day before D, and that of the
\* timestamp one minute after day_start_hour on D is the weekday of D.
C14_WeekdayBoundary ==
    cal.wd # -1
    => LET D == FromTimestamp(cal.ts).day
           m == FromTimestamp(cal.ts).minute
       IN  /\ m = day_start_hour * 60 - 1 => cal.wd = Weekday([day |-> D - 1, minute |-> m])
           /\ m = day_start_hour * 60 + 1 => cal.wd = Weekday([day |-> D, minute |-> m])

C14_Witness ==
    /\ cal.wd = 6
    /\ FromTimestamp(cal.ts).minute = day_start_hour * 60 - 1
    /\ Weekday(FromTimestamp(cal.ts)) = 0

\* C15: with a single writer, appends never store two adjacent entries with the
\* same state; with two writers inside maybe_write_log at once both can read
\* the same last state and both append the same new state (the witness).
C15_SingleWriterNoDuplicates ==
    ~(proc["w1"].used /\ proc["w2"].used) => NoAdjacentDuplicates(log)

C15_Witness ==
    /\ proc["w1"].used /\ proc["w2"].used
    /\ proc["w1"].pc = "idle" /\ proc["w2"].pc = "idle"
    /\ proc["w1"].lastState = proc["w2"].lastState
    /\ proc["w1"].st = proc["w2"].st
    /\ proc["w1"].st # proc["w1"].lastState
    /\ Len(log) >= 3
    /\ log[Len(log)].st = proc["w1"].st
    /\ log[Len(log) - 1].st = proc["w1"].st
    /\ log[Len(log) - 2].st = proc["w1"].lastState

====
